---- MODULE Spec2Model ----
(***************************************************************************)
(* A model of glad/parse.py: the OpenGLSpec object (profile, removal set,  *)
(* six lazily derived and cached collections), the Extension and Feature   *)
(* constructors that resolve <require>/<remove> references, and the        *)
(* OGLType type descriptor with its two renderings.                        *)
(*                                                                         *)
(* Python strings that the code takes apart (split, strip, count, in) are  *)
(* sequences of one-character strings; strings used only as keys or names  *)
(* are TLA+ strings.  None is the empty sequence, a value v held by an     *)
(* optional field is <<v>>.                                                *)
(***************************************************************************)
EXTENDS Integers, Sequences, FiniteSets, TLC

VARIABLES root, _profile, _remove, _types, _groups, _enums, _commands,
          _features, _extensions, allocated, walks, ret,
          element, ogl, rendered

vars == <<root, _profile, _remove, _types, _groups, _enums, _commands,
          _features, _extensions, allocated, walks, ret,
          element, ogl, rendered>>

typevars == <<element, ogl, rendered>>

specvars == <<root, _profile, _remove, _types, _groups, _enums, _commands,
              _features, _extensions, allocated, walks, ret>>

None == <<>>

Some(v) == <<v>>

----------------------------------------------------------------------------
(* Bounds of the model.                                                    *)

\* the largest number of <feature> nodes of a document
MaxFeatures == 2

\* the largest number of references of an extension's <require> block
MaxRefs == 2

\* the largest number of `*` characters of a type text
MaxStars == 2

----------------------------------------------------------------------------
(* Python string operations, on sequences of characters.                   *)

Whitespace == {" ", "\t", "\n"}

RECURSIVE Concat(_)
\* ''.join(parts)
Concat(parts) ==
    IF parts = <<>> THEN <<>> ELSE Head(parts) \o Concat(Tail(parts))

RECURSIVE Repeat(_, _)
\* s * n
Repeat(s, n) == IF n <= 0 THEN <<>> ELSE s \o Repeat(s, n - 1)

RECURSIVE LStrip(_, _)
LStrip(s, chars) ==
    IF s # <<>> /\ Head(s) \in chars THEN LStrip(Tail(s), chars) ELSE s

RECURSIVE RStrip(_, _)
RStrip(s, chars) ==
    IF s # <<>> /\ s[Len(s)] \in chars
    THEN RStrip(SubSeq(s, 1, Len(s) - 1), chars)
    ELSE s

\* str.strip(chars): drops from both ends every character that is in chars
Strip(s, chars) == RStrip(LStrip(s, chars), chars)

\* the characters of the argument of str.strip('const')
CharsOf(s) == {s[i] : i \in 1..Len(s)}

\* str.count(c) for a one-character c
Count(s, c) == Cardinality({i \in 1..Len(s) : s[i] = c})

\* sub in s
Contains(s, sub) ==
    \E i \in 1..(Len(s) - Len(sub) + 1) : SubSeq(s, i, i + Len(sub) - 1) = sub

RECURSIVE Split(_, _)
\* str.split(sep) for a one-character sep: every piece, the empty ones too
Split(s, sep) ==
    IF \E i \in 1..Len(s) : s[i] = sep
    THEN LET i == CHOOSE k \in 1..Len(s) :
                     s[k] = sep /\ \A j \in 1..(k - 1) : s[j] # sep
         IN  <<SubSeq(s, 1, i - 1)>> \o Split(SubSeq(s, i + 1, Len(s)), sep)
    ELSE <<s>>

\* str.split(None, 1): at most the first whitespace-delimited token and the rest
SplitFirst(s) ==
    LET t == LStrip(s, Whitespace)
    IN  IF t = <<>> THEN <<>>
        ELSE IF \E i \in 1..Len(t) : t[i] \in Whitespace
        THEN LET i == CHOOSE k \in 1..Len(t) :
                         t[k] \in Whitespace
                         /\ \A j \in 1..(k - 1) : t[j] \notin Whitespace
                 rest == LStrip(SubSeq(t, i + 1, Len(t)), Whitespace)
             IN  IF rest = <<>> THEN <<SubSeq(t, 1, i - 1)>>
                 ELSE <<SubSeq(t, 1, i - 1), rest>>
        ELSE <<t>>

\* replace(old, '') of every non-overlapping occurrence, left to right
RECURSIVE Remove(_, _)
Remove(s, old) ==
    IF s = <<>> THEN <<>>
    ELSE IF Len(s) >= Len(old) /\ SubSeq(s, 1, Len(old)) = old
    THEN Remove(SubSeq(s, Len(old) + 1, Len(s)), old)
    ELSE <<Head(s)>> \o Remove(Tail(s), old)

DigitValue ==
    [c \in {"0", "1", "2", "3", "4", "5", "6", "7", "8", "9"} |->
        CASE c = "0" -> 0 [] c = "1" -> 1 [] c = "2" -> 2 [] c = "3" -> 3
          [] c = "4" -> 4 [] c = "5" -> 5 [] c = "6" -> 6 [] c = "7" -> 7
          [] c = "8" -> 8 [] c = "9" -> 9]

RECURSIVE ParseInt(_)
\* int(s) for a string of decimal digits
ParseInt(s) ==
    IF s = <<>> THEN 0
    ELSE 10 * ParseInt(SubSeq(s, 1, Len(s) - 1)) + DigitValue[s[Len(s)]]

\* tuple(map(int, s.split('.')))
ParseNumber(s) ==
    LET parts == Split(s, ".") IN [i \in 1..Len(parts) |-> ParseInt(parts[i])]

\* the order of Python tuples of integers
TupleLess(a, b) ==
    \E i \in 1..(Len(a) + 1) :
        /\ \A j \in 1..(i - 1) : j <= Len(b) /\ a[j] = b[j]
        /\ \/ i = Len(a) + 1 /\ Len(b) > Len(a)
           \/ i <= Len(a) /\ i <= Len(b) /\ a[i] < b[i]

----------------------------------------------------------------------------
(* The documents.  An element is a record of its tag, its attributes (a    *)
(* function from attribute names, so that a missing attribute is a missing *)
(* key), its text and its children.                                        *)

s_gl == <<"g", "l">>

s_gles2 == <<"g", "l", "e", "s", "2">>

Apis == {s_gl, s_gles2}

\* a <type>, <enum> or <command> child of a <require> or <remove> block
Ref(tag, name) == [tag |-> tag, attrib |-> [name |-> name]]

cFoo == Ref("command", "glFoo")

cNope == Ref("command", "glNope")

eA == Ref("enum", "GL_A")

tInt == Ref("type", "GLint")

Refs == {cFoo, cNope, eA, tInt}

Block(tag, children) == [tag |-> tag, children |-> children]

\* the values of the `number` attribute: absent, or a dotted version
NumberAttrs == {None, Some(<<"1", ".", "0">>), Some(<<"2", ".", "0">>)}

FeatureElement(api, number, body) ==
    [tag      |-> "feature",
     attrib   |-> IF number = None
                  THEN [name |-> "GL_VERSION", api |-> api]
                  ELSE [name |-> "GL_VERSION", api |-> api, number |-> number[1]],
     children |-> <<Block("require", body.require), Block("remove", body.remove)>>]

\* a feature that requires (one reference does not resolve, one is a type),
\* and a feature that removes what the other requires and what it requires
FeatureBodies ==
    {[require |-> <<cFoo, tInt, cNope, eA>>, remove |-> <<>>],
     [require |-> <<eA>>, remove |-> <<tInt, cFoo, cNope, eA>>]}

\* the nodes with a number
NumberedNodes(apis) ==
    {FeatureElement(api, number, body) :
        api \in apis, number \in NumberAttrs \ {None}, body \in FeatureBodies}

\* the node without one: features reads the number before anything else of
\* a node, so that the rest of such a node is never looked at
UnnumberedNode ==
    FeatureElement(s_gl, None, [require |-> <<cFoo>>, remove |-> <<cFoo>>])

FeatureNodes == NumberedNodes(Apis) \cup {UnnumberedNode}

FeatureLists ==
    UNION {[1..n -> FeatureNodes] : n \in 1..MaxFeatures}

\* "gl" and "gl|gles2"
SupportedAttrs == {s_gl, s_gl \o <<"|">> \o s_gles2}

ExtensionElement(supported, require) ==
    [tag      |-> "extension",
     attrib   |-> [name |-> "GL_EXT_x", supported |-> supported],
     children |-> <<Block("require", require)>>]

RequireLists == UNION {[1..n -> Refs] : n \in 0..MaxRefs}

ExtensionNodes ==
    {ExtensionElement(supported, require) :
        supported \in SupportedAttrs, require \in RequireLists}

Document(features, extensions) ==
    [types      |-> <<[text |-> <<"#", "i", "f">>], [text |-> <<"i", "n", "t">>]>>,
     groups     |-> <<[attrib   |-> [name |-> "Boolean"],
                       children |-> <<[attrib |-> [name |-> "GL_A"]]>>]>>,
     enums      |-> <<[attrib   |-> [namespace |-> "GL", group |-> "Boolean"],
                       children |-> <<[tag |-> "enum",
                                       attrib |-> [name |-> "GL_A", value |-> "0x1"]],
                                      [tag |-> "unused", attrib |-> <<>>]>>]>>,
     commands   |-> <<[proto |-> [name |-> "glFoo"]]>>,
     features   |-> features,
     extensions |-> extensions]

\* the documents that vary the <feature> nodes
FeatureDocuments ==
    {Document(features,
              <<ExtensionElement(s_gl \o <<"|">> \o s_gles2, <<cFoo, eA>>)>>) :
        features \in FeatureLists}

\* the documents that vary the extension
ExtensionDocuments ==
    {Document(<<FeatureElement(s_gl, Some(<<"1", ".", "0">>),
                               [require |-> <<cFoo, eA>>, remove |-> <<eA>>])>>,
              <<extension>>) :
        extension \in ExtensionNodes}

Documents == FeatureDocuments \cup ExtensionDocuments

\* the documents of the specification that reads all six collections: the
\* <feature> nodes of one api
CollectionDocuments ==
    {Document(features,
              <<ExtensionElement(s_gl \o <<"|">> \o s_gles2, <<cFoo, eA>>)>>) :
        features \in [1..MaxFeatures -> NumberedNodes({s_gl}) \cup {UnnumberedNode}]}

----------------------------------------------------------------------------
(* The value classes.                                                      *)

\* Type(element): the concatenated text
Type(el) == [cls |-> "Type", raw |-> el.text]

is_preprocessor(t) == \E i \in 1..Len(t.raw) : t.raw[i] = "#"

\* Group(element): its name and its children's names
Group(el) ==
    [cls   |-> "Group",
     name  |-> el.attrib.name,
     enums |-> [i \in 1..Len(el.children) |-> el.children[i].attrib.name]]

\* element.get(key): None when the attribute is absent
Get(el, key) == IF key \in DOMAIN el.attrib THEN Some(el.attrib[key]) ELSE None

\* Enum(name, value, namespace, type, group, vendor, comment)
Enum(name, value, namespace, type, group, vendor) ==
    [cls |-> "Enum", name |-> name, value |-> value, namespace |-> namespace,
     type |-> type, group |-> group, vendor |-> vendor]

\* Command(element, spec): known by the name of its proto
Command(el) == [cls |-> "Command", name |-> el.proto.name]

\* d[key] = value of a dict, the last write winning
DictPut(d, key, value) == (key :> value) @@ d

\* od[key] = value of an OrderedDict: a new key goes last, a known key keeps
\* its place
OrderedPut(od, key, value) ==
    IF \E i \in 1..Len(od) : od[i].key = key
    THEN [i \in 1..Len(od) |->
            IF od[i].key = key THEN [key |-> key, value |-> value] ELSE od[i]]
    ELSE Append(od, [key |-> key, value |-> value])

\* d[key] of a defaultdict: the default when the key is new
DefaultGet(d, key, default) == IF key \in DOMAIN d THEN d[key] ELSE default

----------------------------------------------------------------------------
(* The walks of the tree behind the cached collections.                    *)

\* [Type(element) for element in self.root.iter('types')]
DeriveTypes(doc) == [i \in 1..Len(doc.types) |-> Type(doc.types[i])]

RECURSIVE DeriveGroups(_)
\* dict of (name, Group(element)) over the children of <groups>
DeriveGroups(els) ==
    IF els = <<>> THEN <<>>
    ELSE LET el == els[Len(els)]
         IN  DictPut(DeriveGroups(SubSeq(els, 1, Len(els) - 1)),
                     el.attrib.name, Group(el))

RECURSIVE DeriveCommands(_)
\* dict of (proto name, Command(element)) over the children of <commands>
DeriveCommands(els) ==
    IF els = <<>> THEN <<>>
    ELSE LET el == els[Len(els)]
         IN  DictPut(DeriveCommands(SubSeq(els, 1, Len(els) - 1)),
                     el.proto.name, Command(el))

RECURSIVE EnumsOfBlock(_, _, _)
\* the inner loop of enums: <unused> children are skipped
EnumsOfBlock(block, children, acc) ==
    IF children = <<>> THEN acc
    ELSE LET enum == Head(children)
         IN  IF enum.tag = "unused"
             THEN EnumsOfBlock(block, Tail(children), acc)
             ELSE EnumsOfBlock(block, Tail(children),
                      DictPut(acc, enum.attrib.name,
                              Enum(enum.attrib.name, enum.attrib.value,
                                   block.attrib.namespace, Get(block, "type"),
                                   Get(block, "group"), Get(block, "vendor"))))

RECURSIVE DeriveEnums(_, _)
\* the outer loop of enums, over every <enums> block
DeriveEnums(blocks, acc) ==
    IF blocks = <<>> THEN acc
    ELSE DeriveEnums(Tail(blocks),
                     EnumsOfBlock(Head(blocks), Head(blocks).children, acc))

----------------------------------------------------------------------------
(* Extension and Feature.                                                  *)

RECURSIVE Chain(_, _)
\* chain.from_iterable(element.findall(tag)): the children of every block
\* with that tag, in document order
Chain(children, tag) ==
    IF children = <<>> THEN <<>>
    ELSE (IF Head(children).tag = tag THEN Head(children).children ELSE <<>>)
         \o Chain(Tail(children), tag)

\* whether a loop over these references evaluates spec.enums and
\* spec.commands: it does for the first reference that is no type
ReadsTables(refs) == \E i \in 1..Len(refs) : refs[i].tag # "type"

\* { 'enum' : spec.enums, 'command' : spec.commands }
Tables(enums, commands) == [enum |-> enums, command |-> commands]

\* data[required.attrib['name']]: the entry, or a KeyError
Lookup(data, ref) ==
    IF "name" \in DOMAIN ref.attrib /\ ref.attrib.name \in DOMAIN data
    THEN [status |-> "ok", value |-> data[ref.attrib.name]]
    ELSE [status |-> "KeyError"]

RECURSIVE ExtensionRequireUnguarded(_, _, _)
\* the loop of Extension.__init__ without its try/except: the KeyError of a
\* name the table lacks ends the construction
ExtensionRequireUnguarded(refs, tables, require) ==
    IF refs = <<>> THEN [status |-> "ok", require |-> require]
    ELSE LET required == Head(refs)
         IN  IF required.tag = "type"
             THEN ExtensionRequireUnguarded(Tail(refs), tables, require)
             ELSE IF required.tag \notin DOMAIN tables
             THEN [status |-> "KeyError", require |-> require]
             ELSE LET found == Lookup(tables[required.tag], required)
                  IN  IF found.status = "ok"
                      THEN ExtensionRequireUnguarded(Tail(refs), tables,
                                                     Append(require, found.value))
                      ELSE [status |-> "KeyError", require |-> require]

RECURSIVE ExtensionRequire(_, _, _)
\* the loop of Extension.__init__: the require-list, or the KeyError of a
\* tag that is none of type, enum and command
ExtensionRequire(refs, tables, require) ==
    IF refs = <<>> THEN [status |-> "ok", require |-> require]
    ELSE LET required == Head(refs)
         IN  IF required.tag = "type"
             THEN ExtensionRequire(Tail(refs), tables, require)
             ELSE IF required.tag \notin DOMAIN tables
             THEN [status |-> "KeyError", require |-> require]
             ELSE LET found == Lookup(tables[required.tag], required)
                  IN  IF found.status = "ok"
                      THEN ExtensionRequire(Tail(refs), tables,
                                            Append(require, found.value))
                      ELSE ExtensionRequire(Tail(refs), tables, require)

RECURSIVE FeatureRemove(_, _, _)
\* the loop of Feature.__init__ over the <remove> blocks: the removal set
FeatureRemove(refs, tables, remove) ==
    IF refs = <<>> THEN [status |-> "ok", remove |-> remove]
    ELSE LET removed == Head(refs)
         IN  IF removed.tag = "type"
             THEN FeatureRemove(Tail(refs), tables, remove)
             ELSE IF removed.tag \notin DOMAIN tables
             THEN [status |-> "KeyError", remove |-> remove]
             ELSE LET found == Lookup(tables[removed.tag], removed)
                  IN  IF found.status = "ok"
                      THEN FeatureRemove(Tail(refs), tables,
                                         remove \cup {found.value})
                      ELSE FeatureRemove(Tail(refs), tables, remove)

\* Extension(element, spec): a new instance, id its identity
Extension(el, tables, id) ==
    LET r == ExtensionRequire(Chain(el.children, "require"), tables, <<>>)
    IN  [status |-> r.status,
         object |-> [cls |-> "Extension", id |-> id, name |-> el.attrib.name,
                     require |-> r.require]]

\* Feature(element, spec): the Extension part, then the removals, then the
\* number and the api
Feature(el, tables, id, remove) ==
    LET base == Extension(el, tables, id)
        rem  == FeatureRemove(Chain(el.children, "remove"), tables, remove)
    IN  IF base.status # "ok"
        THEN [status |-> base.status, remove |-> remove]
        ELSE IF rem.status # "ok" \/ "number" \notin DOMAIN el.attrib
        THEN [status |-> "KeyError", remove |-> rem.remove]
        ELSE [status |-> "ok", remove |-> rem.remove,
              object |-> [cls |-> "Feature", id |-> id, name |-> el.attrib.name,
                          require |-> base.object.require,
                          number |-> ParseNumber(el.attrib.number),
                          api |-> el.attrib.api]]

\* the Extension views, were they to leave out the removal set under 'core'
\* as the Feature views do
ExtensionViewFiltered(e, cls) ==
    SelectSeq(e.require,
              LAMBDA r : r.cls = cls /\ ~(_profile = "core" /\ r \in _remove))

\* Extension.enums / Extension.functions: the require-list by class
ExtensionView(e, cls) == SelectSeq(e.require, LAMBDA r : r.cls = cls)

----------------------------------------------------------------------------
(* OpenGLSpec: the properties.                                             *)

Collections == {"types", "groups", "enums", "commands", "features", "extensions"}

\* the values a caller assigns to profile
ProfileValues == {"core", "compatability", "compatibility"}

\* the test of the setter, were it to spell the second profile 'compatibility'
ValidProfileRespelled(value) == value \in {"core", "compatibility"}

\* value in ('core', 'compatability')
ValidProfile(value) == value \in {"core", "compatability"}

\* the removed property, were it to ignore the profile
removedWhateverProfile == _remove

\* the removed property
removed == IF _profile = "core" THEN _remove ELSE {}

TypesCached == _types # None

GroupsCached == _groups # None

CommandsCached == _commands # None

EnumsCached == _enums # None

\* the test of the features field, were it lost: every access walks the tree
FeaturesNeverCached == FALSE

FeaturesCached == _features # None

ExtensionsCached == _extensions # None

\* the value of the types property
types == IF TypesCached THEN _types[1] ELSE DeriveTypes(root)

\* the value of the groups property
groups == IF GroupsCached THEN _groups[1] ELSE DeriveGroups(root.groups)

\* the value of the commands property
commands == IF CommandsCached THEN _commands[1] ELSE DeriveCommands(root.commands)

\* the value of the enums property
enums == IF EnumsCached THEN _enums[1] ELSE DeriveEnums(root.enums, <<>>)

\* the walks counted once more for the collections derived by a step
Walked(derived) ==
    [c \in Collections |-> IF c \in derived THEN walks[c] + 1 ELSE walks[c]]

\* the collections a first evaluation of spec.enums and spec.commands derives
TablesDerived(read) ==
    (IF read /\ ~EnumsCached THEN {"enums"} ELSE {})
    \cup (IF read /\ ~CommandsCached THEN {"commands"} ELSE {})

RECURSIVE FeaturesWalk(_, _)
\* the loop of features over the <feature> nodes, in document order; acc is
\* the collection so far, the removal set, the instances allocated, whether
\* the tables were read, and the error that ended the loop, if any
FeaturesWalk(els, acc) ==
    IF els = <<>> \/ acc.status # "ok" THEN acc
    ELSE LET el == Head(els)
         IN  IF "number" \notin DOMAIN el.attrib
             THEN [acc EXCEPT !.status = "KeyError"]
             ELSE LET num  == ParseNumber(el.attrib.number)
                      f    == Feature(el, Tables(enums, commands),
                                      acc.allocated + 1, acc.remove)
                      read == \/ acc.read
                              \/ ReadsTables(Chain(el.children, "require"))
                              \/ ReadsTables(Chain(el.children, "remove"))
                  IN  IF f.status # "ok"
                      THEN [acc EXCEPT !.status = f.status, !.remove = f.remove,
                                       !.read = read,
                                       !.allocated = acc.allocated + 1]
                      ELSE FeaturesWalk(Tail(els),
                             [features  |->
                                 DictPut(acc.features, el.attrib.api,
                                     OrderedPut(DefaultGet(acc.features,
                                                           el.attrib.api, <<>>),
                                                num, f.object)),
                              remove    |-> f.remove,
                              allocated |-> acc.allocated + 1,
                              read      |-> read,
                              status    |-> "ok"])

RECURSIVE ExtensionsOfElement(_, _, _)
\* the inner loop of extensions: one Extension(element, self) per api of the
\* supported attribute
ExtensionsOfElement(el, apis, acc) ==
    IF apis = <<>> \/ acc.status # "ok" THEN acc
    ELSE LET api == Head(apis)
             e   == Extension(el, Tables(enums, commands), acc.allocated + 1)
             read == acc.read \/ ReadsTables(Chain(el.children, "require"))
         IN  IF e.status # "ok"
             THEN [acc EXCEPT !.status = e.status, !.read = read,
                              !.allocated = acc.allocated + 1]
             ELSE ExtensionsOfElement(el, Tail(apis),
                    [extensions |->
                        DictPut(acc.extensions, api,
                            DictPut(DefaultGet(acc.extensions, api, <<>>),
                                    el.attrib.name, e.object)),
                     allocated  |-> acc.allocated + 1,
                     read       |-> read,
                     status     |-> "ok"])

RECURSIVE ExtensionsWalk(_, _)
\* the outer loop of extensions, over the children of <extensions>
ExtensionsWalk(els, acc) ==
    IF els = <<>> \/ acc.status # "ok" THEN acc
    ELSE ExtensionsWalk(Tail(els),
             ExtensionsOfElement(Head(els),
                                 Split(Head(els).attrib.supported, "|"), acc))

\* the Feature views, were they the inherited Extension views
FeatureViewInherited(f, cls) == ExtensionView(f, cls)

\* Feature.enums / Feature.functions: the Extension view without what the
\* removed property holds when the view is read
FeatureView(f, cls) ==
    SelectSeq(ExtensionView(f, cls), LAMBDA r : r \notin removed)

----------------------------------------------------------------------------
(* OpenGLSpec: the operations of a caller.  ret is what the last operation *)
(* gave its caller: a value, or the exception it raised.                   *)

Result(op, val) == [op |-> op, status |-> "ok", val |-> val]

Raised(op, error) == [op |-> op, status |-> error]

\* spec.profile = value
SetProfile(value) ==
    /\ IF ValidProfile(value)
       THEN /\ _profile' = value
            /\ ret' = [op |-> "profile", status |-> "ok", arg |-> value]
       ELSE /\ _profile' = _profile
            /\ ret' = [op |-> "profile", status |-> "ValueError", arg |-> value]
    /\ UNCHANGED <<root, _remove, _types, _groups, _enums, _commands,
                   _features, _extensions, allocated, walks>>
    /\ UNCHANGED typevars

\* spec.removed
GetRemoved ==
    /\ ret' = Result("removed", removed)
    /\ UNCHANGED <<root, _profile, _remove, _types, _groups, _enums, _commands,
                   _features, _extensions, allocated, walks>>
    /\ UNCHANGED typevars

\* spec.types
GetTypes ==
    /\ _types' = Some(types)
    /\ walks' = Walked(IF TypesCached THEN {} ELSE {"types"})
    /\ ret' = Result("types", types)
    /\ UNCHANGED <<root, _profile, _remove, _groups, _enums, _commands,
                   _features, _extensions, allocated>>
    /\ UNCHANGED typevars

\* spec.groups
GetGroups ==
    /\ _groups' = Some(groups)
    /\ walks' = Walked(IF GroupsCached THEN {} ELSE {"groups"})
    /\ ret' = Result("groups", groups)
    /\ UNCHANGED <<root, _profile, _remove, _types, _enums, _commands,
                   _features, _extensions, allocated>>
    /\ UNCHANGED typevars

\* spec.commands
GetCommands ==
    /\ _commands' = Some(commands)
    /\ walks' = Walked(IF CommandsCached THEN {} ELSE {"commands"})
    /\ ret' = Result("commands", commands)
    /\ UNCHANGED <<root, _profile, _remove, _types, _groups, _enums,
                   _features, _extensions, allocated>>
    /\ UNCHANGED typevars

\* spec.enums
GetEnums ==
    /\ _enums' = Some(enums)
    /\ walks' = Walked(IF EnumsCached THEN {} ELSE {"enums"})
    /\ ret' = Result("enums", enums)
    /\ UNCHANGED <<root, _profile, _remove, _types, _groups, _commands,
                   _features, _extensions, allocated>>
    /\ UNCHANGED typevars

\* spec.features: the cached collection, or the walk; the field is set
\* before the walk, so that a walk an error ends leaves what it had stored
GetFeatures ==
    /\ IF FeaturesCached
       THEN /\ ret' = Result("features", _features[1])
            /\ UNCHANGED <<_remove, _enums, _commands, _features, allocated,
                           walks>>
       ELSE LET w == FeaturesWalk(root.features,
                         [features |-> <<>>, remove |-> _remove,
                          allocated |-> allocated, read |-> FALSE,
                          status |-> "ok"])
            IN  /\ _features' = Some(w.features)
                /\ _remove' = w.remove
                /\ allocated' = w.allocated
                /\ _enums' = IF w.read THEN Some(enums) ELSE _enums
                /\ _commands' = IF w.read THEN Some(commands) ELSE _commands
                /\ walks' = Walked({"features"} \cup TablesDerived(w.read))
                /\ ret' = IF w.status = "ok"
                          THEN Result("features", w.features)
                          ELSE Raised("features", w.status)
    /\ UNCHANGED <<root, _profile, _types, _groups, _extensions>>
    /\ UNCHANGED typevars

\* spec.extensions
GetExtensions ==
    /\ IF ExtensionsCached
       THEN /\ ret' = Result("extensions", _extensions[1])
            /\ UNCHANGED <<_enums, _commands, _extensions, allocated, walks>>
       ELSE LET w == ExtensionsWalk(root.extensions,
                         [extensions |-> <<>>, allocated |-> allocated,
                          read |-> FALSE, status |-> "ok"])
            IN  /\ _extensions' = Some(w.extensions)
                /\ allocated' = w.allocated
                /\ _enums' = IF w.read THEN Some(enums) ELSE _enums
                /\ _commands' = IF w.read THEN Some(commands) ELSE _commands
                /\ walks' = Walked({"extensions"} \cup TablesDerived(w.read))
                /\ ret' = IF w.status = "ok"
                          THEN Result("extensions", w.extensions)
                          ELSE Raised("extensions", w.status)
    /\ UNCHANGED <<root, _profile, _remove, _types, _groups, _features>>
    /\ UNCHANGED typevars

\* list(f.enums) and list(f.functions) of a Feature f of the collection
ViewFeature ==
    /\ FeaturesCached
    /\ \E api \in DOMAIN _features[1] :
         \E i \in 1..Len(_features[1][api]) :
            LET f == _features[1][api][i].value
            IN  ret' = [op |-> "feature", status |-> "ok", object |-> f,
                        enums |-> FeatureView(f, "Enum"),
                        functions |-> FeatureView(f, "Command")]
    /\ UNCHANGED <<root, _profile, _remove, _types, _groups, _enums, _commands,
                   _features, _extensions, allocated, walks>>
    /\ UNCHANGED typevars

\* list(e.enums) and list(e.functions) of an Extension e of the collection
ViewExtension ==
    /\ ExtensionsCached
    /\ \E api \in DOMAIN _extensions[1] :
         \E name \in DOMAIN _extensions[1][api] :
            LET e == _extensions[1][api][name]
            IN  ret' = [op |-> "extension", status |-> "ok", object |-> e,
                        enums |-> ExtensionView(e, "Enum"),
                        functions |-> ExtensionView(e, "Command")]
    /\ UNCHANGED <<root, _profile, _remove, _types, _groups, _enums, _commands,
                   _features, _extensions, allocated, walks>>
    /\ UNCHANGED typevars

\* the state OpenGLSpec(root) leaves, before the document is chosen
Constructed ==
    /\ _profile = "compatability"
    /\ _remove = {}
    /\ _types = None
    /\ _groups = None
    /\ _enums = None
    /\ _commands = None
    /\ _features = None
    /\ _extensions = None
    /\ allocated = 0
    /\ walks = [c \in Collections |-> 0]
    /\ ret = [op |-> "init", status |-> "ok"]

\* OpenGLSpec(root)
Init ==
    /\ root \in Documents
    /\ Constructed
    /\ element = None
    /\ ogl = None
    /\ rendered = [form |-> "none", text |-> <<>>]

Next ==
    \/ \E value \in ProfileValues : SetProfile(value)
    \/ GetRemoved
    \/ GetCommands
    \/ GetEnums
    \/ GetFeatures
    \/ GetExtensions
    \/ ViewFeature
    \/ ViewExtension

Spec == Init /\ [][Next]_vars

\* OpenGLSpec(root), of a document of one api
InitCollections ==
    /\ root \in CollectionDocuments
    /\ Constructed
    /\ element = None
    /\ ogl = None
    /\ rendered = [form |-> "none", text |-> <<>>]

NextCollections ==
    \/ \E value \in ProfileValues : SetProfile(value)
    \/ GetRemoved
    \/ GetTypes
    \/ GetGroups
    \/ GetCommands
    \/ GetEnums
    \/ GetFeatures
    \/ GetExtensions
    \/ ViewFeature
    \/ ViewExtension

SpecCollections == InitCollections /\ [][NextCollections]_vars

----------------------------------------------------------------------------
(* OGLType.  A type occurrence is the element of a <proto> or a <param>:   *)
(* the pieces of text element.itertext() yields, and the text of its       *)
(* <ptype> child if it has one.                                            *)

s_const == <<"c", "o", "n", "s", "t">>

s_void == <<"v", "o", "i", "d">>

s_char == <<"c", "h", "a", "r">>

s_int == <<"i", "n", "t">>

s_short == <<"s", "h", "o", "r", "t">>

s_GLint == <<"G", "L", "i", "n", "t">>

s_struct == <<"s", "t", "r", "u", "c", "t", " ">>

\* the base type tokens of the occurrences without a <ptype>
TypeNames == {s_void, s_char, s_int, s_short}

\* `const T **`, `T *`, `T`, ... : the text before the <name>, if any
TypeText(const, name, stars) ==
    (IF const THEN s_const \o <<" ">> ELSE <<>>)
    \o name
    \o (IF stars > 0 THEN <<" ">> \o Repeat(<<"*">>, stars) ELSE <<>>)

\* the occurrences: with or without const, with 0..MaxStars stars, alone or
\* followed by the <name> of a parameter, the type being plain text or a
\* <ptype>
TypeElements ==
    {[itertext |-> <<TypeText(const, name, stars)>>
                   \o (IF named THEN <<<<" ", "p">>>> ELSE <<>>),
      ptype    |-> None] :
        const \in BOOLEAN, name \in TypeNames, stars \in 0..MaxStars,
        named \in BOOLEAN}
    \cup
    {[itertext |-> <<TypeText(const, <<>>, 0), s_GLint, TypeText(FALSE, <<>>, stars)>>
                   \o (IF named THEN <<<<" ", "p">>>> ELSE <<>>),
      ptype    |-> Some(s_GLint)] :
        const \in BOOLEAN, stars \in 0..MaxStars, named \in BOOLEAN}

\* text.strip().strip('const').strip().split(None, 1)[0]
BaseType(text) ==
    LET tokens == SplitFirst(Strip(Strip(Strip(text, Whitespace),
                                         CharsOf(s_const)),
                                   Whitespace))
    IN  IF tokens = <<>> THEN [status |-> "IndexError"]
        ELSE [status |-> "ok", value |-> tokens[1]]

\* OGLType(element)
OGLType(el) ==
    LET text == Concat(el.itertext)
        base == IF el.ptype = None THEN BaseType(text)
                ELSE [status |-> "ok", value |-> el.ptype[1]]
    IN  IF base.status # "ok" THEN [status |-> base.status]
        ELSE [status     |-> "ok",
              type       |-> base.value,
              is_pointer |-> Count(text, "*"),
              is_const   |-> Contains(text, s_const)]

\* OGLType.to_d
to_d(t) ==
    LET s == IF t.is_pointer > 1 /\ t.is_const
             THEN s_const \o <<"(">> \o t.type \o <<"*", ")">>
                  \o Repeat(<<"*">>, t.is_pointer - 1)
             ELSE (IF t.is_const
                   THEN s_const \o <<"(">> \o t.type \o <<")">>
                   ELSE t.type)
                  \o Repeat(<<"*">>, t.is_pointer)
    IN  Remove(s, s_struct)

\* OGLType.to_c
to_c(t) ==
    (IF t.is_const THEN s_const \o <<" ">> \o t.type ELSE t.type)
    \o Repeat(<<"*">>, t.is_pointer)

\* t = OGLType(element)
NewOGLType ==
    /\ ogl = None
    /\ ogl' = Some(OGLType(element))
    /\ UNCHANGED <<element, rendered>>
    /\ UNCHANGED specvars

\* t.to_d()
RenderD ==
    /\ ogl # None
    /\ ogl[1].status = "ok"
    /\ rendered' = [form |-> "d", text |-> to_d(ogl[1])]
    /\ UNCHANGED <<element, ogl>>
    /\ UNCHANGED specvars

\* t.to_c()
RenderC ==
    /\ ogl # None
    /\ ogl[1].status = "ok"
    /\ rendered' = [form |-> "c", text |-> to_c(ogl[1])]
    /\ UNCHANGED <<element, ogl>>
    /\ UNCHANGED specvars

InitType ==
    /\ root = Document(<<>>, <<>>)
    /\ Constructed
    /\ element \in TypeElements
    /\ ogl = None
    /\ rendered = [form |-> "none", text |-> <<>>]

NextType == NewOGLType \/ RenderD \/ RenderC

SpecType == InitType /\ [][NextType]_vars

----------------------------------------------------------------------------
(* What the claims speak of, read off the document and the state.          *)

\* the elements of a sequence
Range(seq) == {seq[i] : i \in 1..Len(seq)}

\* the names the <enums> blocks define
DefinedEnums ==
    UNION {{b.children[i].attrib.name :
                i \in {k \in 1..Len(b.children) : b.children[k].tag = "enum"}} :
            b \in Range(root.enums)}

\* the names the <commands> node defines
DefinedCommands == {c.proto.name : c \in Range(root.commands)}

\* a reference of kind enum or command whose name the tables have
Resolvable(ref) ==
    \/ ref.tag = "enum" /\ ref.attrib.name \in DefinedEnums
    \/ ref.tag = "command" /\ ref.attrib.name \in DefinedCommands

\* the entry of the tables a resolvable reference names
Target(ref) ==
    IF ref.tag = "enum"
    THEN DeriveEnums(root.enums, <<>>)[ref.attrib.name]
    ELSE DeriveCommands(root.commands)[ref.attrib.name]

\* the entries the resolvable references of a block name, in document order
Resolved(refs) ==
    LET kept == SelectSeq(refs, Resolvable)
    IN  [i \in 1..Len(kept) |-> Target(kept[i])]

\* the children of the <require> (<remove>) blocks of an element
Required(el) == Chain(el.children, "require")

Removals(el) == Chain(el.children, "remove")

\* the Feature instances the features collection holds
FeatureObjects ==
    IF _features = None THEN {}
    ELSE UNION {{_features[1][api][i].value : i \in 1..Len(_features[1][api])} :
                    api \in DOMAIN _features[1]}

\* the Extension instances the extensions collection holds
ExtensionObjects ==
    IF _extensions = None THEN {}
    ELSE UNION {{_extensions[1][api][name] : name \in DOMAIN _extensions[1][api]} :
                    api \in DOMAIN _extensions[1]}

\* the version tuples of an api, in the order iteration yields them
Versions(api) ==
    [i \in 1..Len(_features[1][api]) |-> _features[1][api][i].key]

\* some <feature> node of the document has no number attribute
SomeNodeUnnumbered ==
    \E i \in 1..Len(root.features) : "number" \notin DOMAIN root.features[i].attrib

\* the field behind a collection
Cache(c) ==
    CASE c = "types" -> _types
      [] c = "groups" -> _groups
      [] c = "enums" -> _enums
      [] c = "commands" -> _commands
      [] c = "features" -> _features
      [] c = "extensions" -> _extensions

\* the <extension> element of a name
ExtensionNamed(name) ==
    CHOOSE el \in Range(root.extensions) : el.attrib.name = name

\* the text of an occurrence without <ptype> and without <name>
PlainOccurrence(const, name, stars) ==
    [itertext |-> <<TypeText(const, name, stars)>>, ptype |-> None]

----------------------------------------------------------------------------
(* The claims.                                                             *)

\* C1: with profile 'core', the enums and functions views of a Feature of the
\* derived collection hold no entry of the removal set, whichever node
\* declared the removal and whatever the Feature's version.
C1_FeatureViewsExcludeRemoved ==
    (ret.op = "feature" /\ _profile = "core") =>
        /\ \A e \in Range(ret.enums) : e \notin _remove
        /\ \A f \in Range(ret.functions) : f \notin _remove

\* C1 witness: under 'core', the views of the Feature built first, of version
\* 2.0, which requires glFoo and GL_A and removes nothing itself, are read
\* after a later node removed what it requires.
C1_Witness ==
    /\ ret.op = "feature"
    /\ _profile = "core"
    /\ ret.object.id = 1
    /\ ret.object.number = <<2, 0>>
    /\ Len(ret.object.require) = 2
    /\ Range(ret.object.require) \subseteq _remove
    /\ ret.functions = <<>>
    /\ ret.enums = <<>>

\* C2: the removed query gives the empty set when the current profile is
\* 'compatability' and the removal set as it is now when it is 'core'.
C2_RemovedFollowsProfile ==
    ret.op = "removed" =>
        /\ _profile = "compatability" => ret.val = {}
        /\ _profile = "core" => ret.val = _remove

\* C2 witness: removed is queried under 'core' once the features walk has
\* put entries into the removal set.
C2_Witness ==
    /\ ret.op = "removed"
    /\ _profile = "core"
    /\ _remove # {}
    /\ ret.val = _remove

\* C3 as stated: under 'core', once the features are derived, no entry of the
\* removal set is in the enums map, the commands map, a Feature's views or
\* an Extension's views.
C3_AllQueriesExcludeRemoved ==
    (_profile = "core" /\ _features # None) =>
        /\ ret.op = "enums" => \A n \in DOMAIN ret.val : ret.val[n] \notin _remove
        /\ ret.op = "commands" => \A n \in DOMAIN ret.val : ret.val[n] \notin _remove
        /\ ret.op \in {"feature", "extension"} =>
              \A r \in Range(ret.enums) \cup Range(ret.functions) : r \notin _remove

\* C3 amended: under 'core', once the features are derived, only a Feature's
\* views leave out the removal set; the enums map and the commands map hold
\* every defined name and an Extension's views hold every entry of its
\* require-list, removed or not.
C3_OnlyFeatureViewsExcludeRemoved ==
    (_profile = "core" /\ _features # None) =>
        /\ ret.op = "enums" => DOMAIN ret.val = DefinedEnums
        /\ ret.op = "commands" => DOMAIN ret.val = DefinedCommands
        /\ ret.op = "extension" =>
              /\ Range(ret.enums) \cup Range(ret.functions) = Range(ret.object.require)
              /\ Len(ret.enums) + Len(ret.functions) = Len(ret.object.require)
        /\ ret.op = "feature" =>
              Range(ret.enums) \cup Range(ret.functions)
                  = Range(ret.object.require) \ _remove

\* C3 witness: under 'core', after the features walk removed glFoo, the
\* functions view of an Extension that requires glFoo still yields it.
C3_Witness ==
    /\ _profile = "core"
    /\ _features # None
    /\ ret.op = "extension"
    /\ \E f \in Range(ret.functions) : f \in _remove

\* C4: iterating features[api] yields the version tuples in strictly
\* increasing order, whatever the document order of the nodes.
C4_VersionAscending ==
    _features # None =>
        \A api \in DOMAIN _features[1] :
            \A i, j \in 1..Len(_features[1][api]) :
                i < j => TupleLess(Versions(api)[i], Versions(api)[j])

\* C5: the registrations of one extension under the api variants of its
\* supported attribute are one and the same Extension instance.
C5_SharedInstance ==
    _extensions # None =>
        \A a, b \in DOMAIN _extensions[1] :
            \A name \in DOMAIN _extensions[1][a] \cap DOMAIN _extensions[1][b] :
                _extensions[1][a][name] = _extensions[1][b][name]

\* C6: when some <feature> node has no number attribute, every access to
\* features raises the error; none returns a collection of the nodes before
\* the malformed one.
C6_NoPartialFeatures ==
    (SomeNodeUnnumbered /\ ret.op = "features") => ret.status = "KeyError"

\* C7: a reference of kind enum or command that does not resolve never makes
\* the construction of an Extension or a Feature fail: the walks end without
\* an error (but for the missing number of a <feature> node), every
\* require-list is the resolvable references of the <require> blocks in
\* document order, and the removal set grows by exactly the resolvable
\* references of the <remove> blocks of the nodes built.
C7_UnresolvedSkipped ==
    [][ /\ (_features = None /\ _features' # None) =>
             LET built == allocated' - allocated
             IN  /\ ret'.status # "ok" =>
                       /\ built < Len(root.features)
                       /\ "number" \notin DOMAIN root.features[built + 1].attrib
                 /\ \A f \in FeatureObjects' :
                       f.require = Resolved(Required(root.features[f.id - allocated]))
                 /\ _remove' = _remove \cup
                       UNION {Range(Resolved(Removals(root.features[j]))) :
                                 j \in 1..built}
        /\ (_extensions = None /\ _extensions' # None) =>
             /\ ret'.status = "ok"
             /\ \A api \in DOMAIN _extensions'[1] :
                   \A name \in DOMAIN _extensions'[1][api] :
                      _extensions'[1][api][name].require
                          = Resolved(Required(ExtensionNamed(name)))
      ]_vars

\* C7 witness: the features were derived without an error from a document
\* whose <require> and <remove> blocks both name glNope, which no table has;
\* the resolvable entries around it are in the require-list and the removal set.
C7_Witness ==
    /\ ret.op = "features"
    /\ ret.status = "ok"
    /\ \E el \in Range(root.features) : cNope \in Range(Required(el))
    /\ \E el \in Range(root.features) : cNope \in Range(Removals(el))
    /\ \E f \in FeatureObjects : f.require = <<Target(cFoo), Target(eA)>>
    /\ _remove = {Target(cFoo), Target(eA)}

\* C8: each collection is derived at most once, on its first access; from then
\* on the field keeps its value and an access returns it; once the features
\* field is set no step changes the removal set.
C8_DerivedOnce ==
    [][ /\ \A c \in Collections :
              /\ walks'[c] <= 1
              /\ Cache(c) # None => Cache(c)' = Cache(c)
              /\ (ret'.op = c /\ ret'.status = "ok") =>
                    /\ Cache(c)' = Some(ret'.val)
                    /\ walks'[c] = 1
        /\ _features # None => _remove' = _remove
      ]_vars

\* C8 witness: features is read again after the extensions were derived, which
\* was after the features walk had filled the removal set; types and groups
\* are cached as well.
C8_Witness ==
    /\ ret.op = "features"
    /\ ret.status = "ok"
    /\ walks = [c \in Collections |-> 1]
    /\ _remove # {}
    /\ \A c \in Collections : Cache(c) # None
    /\ \E e \in ExtensionObjects : \A f \in FeatureObjects : f.id < e.id

\* C9: without <ptype>, the base type is the first token after a leading
\* const, the depth the number of stars and the flag the presence of const:
\* `const T **` renders as `const(T*)*` (to_d) and `const T**` (to_c), `T *`
\* as `T*` in both forms, for every base type token T.
C9_Rendering ==
    \A name \in TypeNames :
        /\ (element = PlainOccurrence(TRUE, name, 2) /\ ogl # None) =>
              /\ ogl[1].status = "ok"
              /\ ogl[1].type = name
              /\ ogl[1].is_pointer = 2
              /\ ogl[1].is_const
              /\ rendered.form = "d" =>
                    rendered.text = s_const \o <<"(">> \o name \o <<"*", ")", "*">>
              /\ rendered.form = "c" =>
                    rendered.text = s_const \o <<" ">> \o name \o <<"*", "*">>
        /\ (element = PlainOccurrence(FALSE, name, 1) /\ ogl # None) =>
              /\ ogl[1].status = "ok"
              /\ ogl[1].type = name
              /\ ogl[1].is_pointer = 1
              /\ ~ogl[1].is_const
              /\ rendered.form \in {"d", "c"} => rendered.text = name \o <<"*">>

\* C10: assigning a value other than 'core' and 'compatability' raises
\* ValueError and changes nothing of the spec; assigning one of the two
\* succeeds and changes the profile alone.
C10_ProfileSetter ==
    [][ ret'.op = "profile" =>
          /\ ret'.arg \in {"core", "compatability"} =>
                ret'.status = "ok" /\ _profile' = ret'.arg
          /\ ret'.arg \notin {"core", "compatability"} =>
                ret'.status = "ValueError" /\ _profile' = _profile
          /\ UNCHANGED <<root, _remove, _types, _groups, _enums, _commands,
                         _features, _extensions, allocated, walks>>
      ]_vars

\* C10 witness: 'compatibility' was refused with ValueError on a spec whose
\* profile is 'core' and whose features are derived, removals and all.
C10_Witness ==
    /\ ret.op = "profile"
    /\ ret.arg = "compatibility"
    /\ ret.status = "ValueError"
    /\ _profile = "core"
    /\ _features # None
    /\ _remove # {}

====
